---- MODULE Spec2Model ----
(***************************************************************************)
(* Model of subsync: the framerate detector (src/src/framerate_detector.rs) *)
(* and the timestamp rescaling of the subtitle parser                      *)
(* (src/src/subtitle_parser.rs).                                           *)
(*                                                                         *)
(* All arithmetic the code does in f32 is done here in a bit-exact model   *)
(* of IEEE-754 binary32 (24-bit significand, round to nearest, ties to     *)
(* even), built from integer operations that stay inside 32 bits.          *)
(***************************************************************************)
EXTENDS Integers, Sequences, FiniteSets, TLC

(***************************************************************************)
(* f32.  A value is [k, s, m, e]: kind "fin" | "inf" | "nan", sign s in    *)
(* {1,-1}, and for a finite value the magnitude m * 2^e with either m = 0  *)
(* or 2^23 <= m < 2^24.  The magnitudes this program computes lie far      *)
(* inside the normal range, so subnormals are not represented; overflow    *)
(* of the exponent gives infinity.                                         *)
(***************************************************************************)
FZero == [k |-> "fin", s |-> 1, m |-> 0, e |-> 0]

FInf(sg) == [k |-> "inf", s |-> sg, m |-> 0, e |-> 0]

FNaN == [k |-> "nan", s |-> 1, m |-> 0, e |-> 0]

IsNaN(a) == a.k = "nan"

IsZero(a) == a.k = "fin" /\ a.m = 0

\* The number of bits of n, 0 <= n < 2^31.
BitLen4(n) == IF n = 0 THEN 0 ELSE IF n < 2 THEN 1 ELSE IF n < 4 THEN 2
              ELSE IF n < 8 THEN 3 ELSE 4

BitLen8(n) == IF n < 16 THEN BitLen4(n) ELSE 4 + BitLen4(n \div 16)

BitLen16(n) == IF n < 256 THEN BitLen8(n) ELSE 8 + BitLen8(n \div 256)

BitLen(n) == IF n < 65536 THEN BitLen16(n) ELSE 16 + BitLen16(n \div 65536)

\* The finite f32 sg * m * 2^ex, m already a 24-bit significand (or 0).
F32(sg, m, ex) == [k |-> "fin", s |-> sg, m |-> m, e |-> ex]

\* m1 in 2^23..2^24 with exponent ex: a carry out of the significand
\* renormalises, an exponent above the largest gives infinity.
Pack(sg, m1, ex) ==
  IF m1 = 2^24
  THEN (IF ex + 1 > 104 THEN FInf(sg) ELSE F32(sg, 2^23, ex + 1))
  ELSE (IF ex > 104 THEN FInf(sg) ELSE F32(sg, m1, ex))

\* Round to nearest, ties to even: whether q is to be incremented, given the
\* bits r cut off below it, half a unit of q, and the sticky bit st.
RoundUp(q, r, half, st) == r > half \/ (r = half /\ (st = 1 \/ q % 2 = 1))

\* n (of bl bits) * 2^ex rounded to 24 bits.
RoundBits(sg, n, ex, st, bl) ==
  IF bl <= 24 THEN F32(sg, n * 2^(24 - bl), ex - (24 - bl))
  ELSE Pack(sg,
            (n \div 2^(bl - 24))
              + (IF RoundUp(n \div 2^(bl - 24), n % 2^(bl - 24), 2^(bl - 25), st)
                 THEN 1 ELSE 0),
            ex + (bl - 24))

\* The f32 nearest to sg * n * 2^ex, where 0 <= n < 2^31; st = 1 says that the
\* exact value lies strictly above n * 2^ex by less than one unit of n
\* (the callers pass at least 26 significant bits in n whenever st = 1).
RoundPack(sg, n, ex, st) ==
  IF n = 0 THEN F32(sg, 0, 0) ELSE RoundBits(sg, n, ex, st, BitLen(n))

\* `i as f32` for an i32 i.
FromInt(i) == RoundPack(IF i < 0 THEN -1 ELSE 1, IF i < 0 THEN -i ELSE i, 0, 0)

\* The product hi * 2^24 + lo of two significands, cut to 30 bits and a sticky
\* bit, then rounded.
MulRound(sg, hi, lo, ex) ==
  RoundPack(sg, hi * 64 + (lo \div 2^18), ex, IF lo % 2^18 = 0 THEN 0 ELSE 1)

\* The middle and low partial products, carried into the high one.
MulCarry(sg, hh, mid, ll, ex) ==
  MulRound(sg,
           hh + (mid \div 4096) + (((mid % 4096) * 4096 + ll) \div 2^24),
           ((mid % 4096) * 4096 + ll) % 2^24,
           ex)

\* (a1 * 2^12 + a0) * (b1 * 2^12 + b0) * 2^(ex - 18), from 12-bit limbs.
MulLimbs(sg, a1, a0, b1, b0, ex) ==
  MulCarry(sg, a1 * b1, a1 * b0 + a0 * b1, a0 * b0, ex)

\* a * b: the 48-bit product of the significands is formed from 12-bit limbs.
FMul(a, b) ==
  IF IsNaN(a) \/ IsNaN(b) THEN FNaN
  ELSE IF a.k = "inf" \/ b.k = "inf"
    THEN (IF IsZero(a) \/ IsZero(b) THEN FNaN ELSE FInf(a.s * b.s))
  ELSE IF a.m = 0 \/ b.m = 0 THEN [FZero EXCEPT !.s = a.s * b.s]
  ELSE MulLimbs(a.s * b.s, a.m \div 4096, a.m % 4096, b.m \div 4096, b.m % 4096,
                a.e + b.e + 18)

RECURSIVE DivBits(_, _, _, _)
\* n more quotient bits of r / d (r < d < 2^24), appended to q, seven bits at
\* a time: <<quotient, remainder>>.
DivBits(r, d, n, q) ==
  IF n = 0 THEN <<q, r>>
  ELSE IF n >= 7
       THEN DivBits((r * 128) % d, d, n - 7, q * 128 + ((r * 128) \div d))
       ELSE DivBits((r * 2^n) % d, d, 0, q * 2^n + ((r * 2^n) \div d))

\* The quotient and remainder qr rounded.
DivRound(sg, qr, ex) == RoundPack(sg, qr[1], ex, IF qr[2] = 0 THEN 0 ELSE 1)

\* a / b by long division to 26 quotient bits and a sticky remainder.
FDiv(a, b) ==
  IF IsNaN(a) \/ IsNaN(b) THEN FNaN
  ELSE IF a.k = "inf" THEN (IF b.k = "inf" THEN FNaN ELSE FInf(a.s * b.s))
  ELSE IF b.k = "inf" THEN [FZero EXCEPT !.s = a.s * b.s]
  ELSE IF b.m = 0 THEN (IF a.m = 0 THEN FNaN ELSE FInf(a.s * b.s))
  ELSE IF a.m = 0 THEN [FZero EXCEPT !.s = a.s * b.s]
  ELSE DivRound(a.s * b.s, DivBits(a.m % b.m, b.m, 26, a.m \div b.m),
                a.e - b.e - 26)

\* v shifted right by d bits, any bit shifted out kept in the lowest bit.
ShiftRightJam(v, d) ==
  IF d >= 31 THEN (IF v = 0 THEN 0 ELSE 1)
  ELSE IF v % 2^d = 0 \/ (v \div 2^d) % 2 = 1 THEN v \div 2^d
  ELSE (v \div 2^d) + 1

\* The signed sum of the aligned significands, rounded.
AddRound(sum, ex) ==
  IF sum = 0 THEN FZero
  ELSE RoundPack(IF sum < 0 THEN -1 ELSE 1, IF sum < 0 THEN -sum ELSE sum, ex, 0)

\* big + small for finite nonzero values with big.e >= small.e.
AddAligned(big, small) ==
  AddRound(big.s * (big.m * 64)
             + small.s * ShiftRightJam(small.m * 64, big.e - small.e),
           big.e - 6)

\* a + b, with six guard bits below the significands.
FAdd(a, b) ==
  IF IsNaN(a) \/ IsNaN(b) THEN FNaN
  ELSE IF a.k = "inf"
    THEN (IF b.k = "inf" /\ b.s # a.s THEN FNaN ELSE a)
  ELSE IF b.k = "inf" THEN b
  ELSE IF a.m = 0 THEN (IF b.m = 0 /\ a.s # b.s THEN FZero ELSE b)
  ELSE IF b.m = 0 THEN a
  ELSE IF a.e >= b.e THEN AddAligned(a, b)
  ELSE AddAligned(b, a)

FNeg(a) == IF IsNaN(a) THEN a ELSE [a EXCEPT !.s = -a.s]

FSub(a, b) == FAdd(a, FNeg(b))

\* f32::abs
FAbs(a) == IF IsNaN(a) THEN a ELSE [a EXCEPT !.s = 1]

\* f32::round: to the nearest integer, halves away from zero.
FRound(a) ==
  IF a.k # "fin" \/ a.m = 0 \/ a.e >= 0 THEN a
  ELSE IF a.e <= -25 THEN [FZero EXCEPT !.s = a.s]
  ELSE RoundPack(a.s,
                 (a.m \div 2^(-a.e))
                   + (IF a.m % 2^(-a.e) >= 2^(-a.e - 1) THEN 1 ELSE 0),
                 0, 0)

\* -1, 0 or 1 for a value that is not NaN.
Signum(a) == IF a.k = "fin" /\ a.m = 0 THEN 0 ELSE a.s

\* |x| < |y| for nonzero values that are not NaN.
MagLt(x, y) ==
  IF x.k = "inf" THEN FALSE
  ELSE IF y.k = "inf" THEN TRUE
  ELSE x.e < y.e \/ (x.e = y.e /\ x.m < y.m)

\* a < b (false when either is NaN).
FLt(a, b) ==
  IF IsNaN(a) \/ IsNaN(b) THEN FALSE
  ELSE IF Signum(a) # Signum(b) THEN Signum(a) < Signum(b)
  ELSE IF Signum(a) = 0 THEN FALSE
  ELSE IF Signum(a) = 1 THEN MagLt(a, b)
  ELSE MagLt(b, a)

FGt(a, b) == FLt(b, a)

\* a == b as f32 compares (NaN equals nothing, 0 equals -0).
FEq(a, b) == ~IsNaN(a) /\ ~IsNaN(b) /\ ~FLt(a, b) /\ ~FLt(b, a)

I32Max == 2147483647

\* `a as i32`: truncation toward zero, saturating, NaN to 0.
ToI32(a) ==
  IF IsNaN(a) THEN 0
  ELSE IF a.k = "inf" THEN (IF a.s = 1 THEN I32Max ELSE -I32Max - 1)
  ELSE IF a.m = 0 THEN 0
  ELSE IF a.e >= 8 THEN (IF a.s = 1 THEN I32Max ELSE -I32Max - 1)
  ELSE IF a.e >= 0 THEN a.s * (a.m * 2^a.e)
  ELSE IF a.e <= -24 THEN 0
  ELSE a.s * (a.m \div 2^(-a.e))

\* The f32 a decimal literal num/den denotes (num < 2^24, den a power of ten).
Lit(num, den) == FDiv(FromInt(num), FromInt(den))

\* The f32 literals of the code, by significand and exponent.
F0_1 == F32(1, 13421773, -27)

F0_5 == F32(1, 8388608, -24)

F0_6 == F32(1, 10066330, -24)

F0_7 == F32(1, 11744051, -24)

F0_8 == F32(1, 13421773, -24)

F1 == F32(1, 8388608, -23)

F2 == F32(1, 8388608, -22)

F3 == F32(1, 12582912, -22)

F10 == F32(1, 10485760, -20)

F50 == F32(1, 13107200, -18)

F1000 == F32(1, 16384000, -14)

F60000 == F32(1, 15360000, -8)

F23_976 == F32(1, 12570329, -19)

F24 == F32(1, 12582912, -19)

F25 == F32(1, 13107200, -19)

F29_97 == F32(1, 15712911, -19)

F30 == F32(1, 15728640, -19)

F59_94 == F32(1, 15712911, -18)

F60 == F32(1, 15728640, -18)

\* Each of them is the f32 nearest to the decimal the code writes.
LiteralsAreNearest ==
  /\ F0_1 = Lit(1, 10) /\ F0_5 = Lit(5, 10) /\ F0_6 = Lit(6, 10)
  /\ F0_7 = Lit(7, 10) /\ F0_8 = Lit(8, 10) /\ F1 = Lit(1, 1)
  /\ F2 = Lit(2, 1) /\ F3 = Lit(3, 1) /\ F10 = Lit(10, 1)
  /\ F50 = Lit(50, 1) /\ F1000 = Lit(1000, 1) /\ F60000 = Lit(60000, 1)
  /\ F23_976 = Lit(23976, 1000) /\ F24 = Lit(24, 1) /\ F25 = Lit(25, 1)
  /\ F29_97 = Lit(2997, 100) /\ F30 = Lit(30, 1)
  /\ F59_94 = Lit(5994, 100) /\ F60 = Lit(60, 1)

(***************************************************************************)
(* framerate_detector.rs                                                   *)
(***************************************************************************)
\* const COMMON_FRAMERATES
COMMON_FRAMERATES == << F23_976, F24, F25, F29_97, F30, F50, F59_94, F60 >>

\* frame_duration_ms = 1000.0 / fps, for the fps at each place of the list.
FrameDurationMs == [f \in 1..8 |-> FDiv(F1000, COMMON_FRAMERATES[f])]

\* struct SubtitleTiming, as both analyze_srt_content and main.rs build it.
SubtitleTiming(start, end) ==
  [start_ms |-> start, end_ms |-> end, duration_ms |-> end - start]

\* struct FramerateDetection
FramerateDetection(fps, conf, meth) ==
  [framerate |-> fps, confidence |-> conf, method |-> meth]

\* What a call that unwinds leaves instead of a FramerateDetection.
Panic == [framerate |-> FNaN, confidence |-> FNaN, method |-> "panic"]

\* An Option<T> is a sequence of at most one element.
None == << >>

Some(x) == << x >>

\* detect_by_intervals, the gaps kept: start of cue i minus end of cue i-1,
\* when strictly between 0 and 10000.
Intervals(t) ==
  LET Gap(i) == t[i + 1].start_ms - t[i].end_ms
      RECURSIVE Collect(_)
      Collect(i) ==
        IF i >= Len(t) THEN << >>
        ELSE IF Gap(i) > 0 /\ Gap(i) < 10000 THEN << Gap(i) >> \o Collect(i + 1)
        ELSE Collect(i + 1)
  IN Collect(1)

\* The keys of interval_counts: each gap truncated to a multiple of 100.
Rounded(interval) == (interval \div 100) * 100

\* interval_counts[b]
IntervalCount(ivs, b) == Cardinality({i \in 1..Len(ivs) : Rounded(ivs[i]) = b})

\* The buckets max_by_key may return: the map is a HashMap with a random
\* hasher, so among equally frequent buckets the one iterated last wins and
\* any of them can be that one.
MostCommonIntervals(t) ==
  LET ivs  == Intervals(t)
      keys == {Rounded(ivs[i]) : i \in 1..Len(ivs)}
  IN {b \in keys : \A c \in keys : IntervalCount(ivs, c) <= IntervalCount(ivs, b)}

\* The three expected gaps of the framerate at place f, each `as i32`.
ExpectedIntervals ==
  [f \in 1..8 |-> << ToI32(FrameDurationMs[f]),
                     ToI32(FMul(FrameDurationMs[f], F2)),
                     ToI32(FMul(FrameDurationMs[f], F3)) >>]

Abs(i) == IF i < 0 THEN -i ELSE i

\* A variant of IntervalConfidence: the confidence is not scaled by 0.7.
IntervalConfidence_Unscaled(diff) ==
  FSub(F1, FDiv(FromInt(diff), F50))

\* The confidence detect_by_intervals gives a gap that is off by diff.
IntervalConfidence(diff) ==
  FMul(FSub(F1, FDiv(FromInt(diff), F50)), F0_7)

\* The match loop of detect_by_intervals for the chosen bucket: the first
\* framerate, and for it the first multiple, within 50 ms.
MatchInterval(interval) ==
  LET RECURSIVE Scan(_, _)
      Scan(f, j) ==
        IF f > Len(COMMON_FRAMERATES) THEN None
        ELSE IF j > 3 THEN Scan(f + 1, 1)
        ELSE LET expected == ExpectedIntervals[f][j]
             IN IF Abs(interval - expected) < 50
                THEN Some(FramerateDetection(
                            COMMON_FRAMERATES[f],
                            IntervalConfidence(Abs(interval - expected)),
                            "interval_analysis"))
                ELSE Scan(f, j + 1)
  IN Scan(1, 1)

\* The results detect_by_intervals can return for the samples t.
DetectByIntervals(t) ==
  IF Len(t) < 10 THEN {None}
  ELSE IF Intervals(t) = << >> THEN {None}
  ELSE {MatchInterval(b) : b \in MostCommonIntervals(t)}

\* The alignment test of detect_by_duration_patterns for a cue that lasts
\* duration_ms.
Aligned(duration_ms, frame_duration_ms) ==
  LET frames == FDiv(FromInt(duration_ms), frame_duration_ms)
  IN FLt(FAbs(FSub(frames, FRound(frames))), F0_1)

\* alignment_ratio of the framerate at place f over the samples t (the test
\* is evaluated once for each duration that occurs).
AlignmentRatio(t, f) ==
  LET aligned == [d \in {t[i].duration_ms : i \in 1..Len(t)} |->
                    Aligned(d, FrameDurationMs[f])]
      aligned_count == Cardinality({i \in 1..Len(t) : aligned[t[i].duration_ms]})
  IN FDiv(FromInt(aligned_count), FromInt(Len(t)))

\* detect_by_duration_patterns
DetectByDurationPatterns(t) ==
  IF Len(t) < 20 THEN None
  ELSE LET RECURSIVE Loop(_, _, _)
           Loop(f, best_match, best_score) ==
             IF f > Len(COMMON_FRAMERATES) THEN best_match
             ELSE LET ratio == AlignmentRatio(t, f)
                  IN IF FGt(ratio, best_score) /\ FGt(ratio, F0_6)
                     THEN Loop(f + 1,
                               Some(FramerateDetection(COMMON_FRAMERATES[f],
                                                       FMul(ratio, F0_8),
                                                       "duration_pattern")),
                               ratio)
                     ELSE Loop(f + 1, best_match, best_score)
       IN Loop(1, None, FZero)

\* has_ntsc_indicators
HasNtscIndicators(t) ==
  IF Len(t) = 0 THEN FALSE
  ELSE LET total_duration == t[Len(t)].end_ms - t[1].start_ms
           density == FDiv(FromInt(Len(t)),
                           FDiv(FromInt(total_duration), F60000))
       IN FGt(density, F10)

\* A variant of DetectByCommonFramerates: the sample-size gate is `< 4`.
DetectByCommonFramerates_MinFour(t) ==
  IF Len(t) < 4 THEN None
  ELSE Some(FramerateDetection(
              IF HasNtscIndicators(t) THEN F29_97 ELSE F25,
              FAdd(F0_5, IF t[Len(t)].end_ms - t[1].start_ms > 3600000
                         THEN F0_1 ELSE FZero),
              "common_framerate_heuristic"))

\* A variant of DetectByCommonFramerates: the boost is scaled by the subtitle
\* density, which is infinite when the samples span no time.
DetectByCommonFramerates_DensityBoost(t) ==
  IF Len(t) < 5 THEN None
  ELSE Some(FramerateDetection(
              IF HasNtscIndicators(t) THEN F29_97 ELSE F25,
              FAdd(F0_5,
                   FMul(IF t[Len(t)].end_ms - t[1].start_ms > 3600000
                        THEN F0_1 ELSE FZero,
                        FDiv(FromInt(Len(t)),
                             FDiv(FromInt(t[Len(t)].end_ms - t[1].start_ms),
                                  F60000)))),
              "common_framerate_heuristic"))

\* A variant of DetectByCommonFramerates: the sample-size gate is `< 20`.
DetectByCommonFramerates_MinTwenty(t) ==
  IF Len(t) < 20 THEN None
  ELSE Some(FramerateDetection(
              IF HasNtscIndicators(t) THEN F29_97 ELSE F25,
              FAdd(F0_5, IF t[Len(t)].end_ms - t[1].start_ms > 3600000
                         THEN F0_1 ELSE FZero),
              "common_framerate_heuristic"))

\* detect_by_common_framerates; last().unwrap() and first().unwrap() panic on
\* an empty Vec.
DetectByCommonFramerates(t) ==
  IF Len(t) < 5 THEN None
  ELSE IF t = << >> THEN Some(Panic)
  ELSE LET total_duration == t[Len(t)].end_ms - t[1].start_ms
           confidence_boost == IF total_duration > 3600000 THEN F0_1 ELSE FZero
           default_fps == IF HasNtscIndicators(t) THEN F29_97 ELSE F25
       IN Some(FramerateDetection(default_fps,
                                  FAdd(F0_5, confidence_boost),
                                  "common_framerate_heuristic"))

\* A variant of CompareConfidence: a.confidence.partial_cmp(&b.confidence), an
\* ascending sort.
CompareConfidence_Ascending(a, b) ==
  IF IsNaN(a.confidence) \/ IsNaN(b.confidence) THEN "none"
  ELSE IF FLt(a.confidence, b.confidence) THEN "less"
  ELSE IF FLt(b.confidence, a.confidence) THEN "greater"
  ELSE "equal"

\* The comparator of detections.sort_by: b.confidence.partial_cmp(&a.confidence),
\* "none" when either is NaN (the unwrap then panics).
CompareConfidence(a, b) ==
  IF IsNaN(a.confidence) \/ IsNaN(b.confidence) THEN "none"
  ELSE IF FLt(b.confidence, a.confidence) THEN "less"
  ELSE IF FLt(a.confidence, b.confidence) THEN "greater"
  ELSE "equal"

\* slice::sort_by is a stable sort: x goes after every element that does not
\* compare greater than it.
RECURSIVE InsertSorted(_, _)
InsertSorted(sorted, x) ==
  IF sorted = << >> THEN << x >>
  ELSE IF CompareConfidence(Head(sorted), x) = "greater"
       THEN << x >> \o sorted
       ELSE << Head(sorted) >> \o InsertSorted(Tail(sorted), x)

RECURSIVE SortDetections(_)
SortDetections(ds) ==
  IF ds = << >> THEN << >>
  ELSE InsertSorted(SortDetections(SubSeq(ds, 1, Len(ds) - 1)), ds[Len(ds)])

\* A comparison the sort makes returns None: with two or more elements every
\* element is compared at least once.
SortPanics(ds) ==
  Len(ds) >= 2 /\ \E i \in 1..Len(ds) : IsNaN(ds[i].confidence)

\* A method called with `?` has unwound.
MethodPanics(ds) == \E i \in 1..Len(ds) : ds[i].method = "panic"

\* detect_framerate once the three methods have answered with ds
\* (the contents of `detections`, in push order).
SelectDetection(ds) ==
  IF MethodPanics(ds) \/ SortPanics(ds) THEN Panic
  ELSE IF ds = << >>
       THEN FramerateDetection(F29_97, F0_1, "fallback")
       ELSE Head(SortDetections(ds))

\* detect_framerate's early return for an empty Vec of samples.
DefaultOutcome ==
  [result |-> FramerateDetection(F29_97, FZero, "default"),
   detections |-> << >>,
   invoked |-> << >>]

\* detect_framerate past the early return: the three methods in turn, then
\* the selection, for each result detect_by_intervals can have.
RunMethods(t) ==
  LET duration == DetectByDurationPatterns(t)
      common   == DetectByCommonFramerates(t)
  IN {[result |-> SelectDetection(intervals \o duration \o common),
       detections |-> intervals \o duration \o common,
       invoked |-> << "detect_by_intervals", "detect_by_duration_patterns",
                      "detect_by_common_framerates" >>]
      : intervals \in DetectByIntervals(t)}

\* A variant of DetectFramerate: no early return for an empty Vec.
DetectFramerate_NoEarlyReturn(t) == RunMethods(t)

\* detect_framerate on the samples t: every outcome it can have, each with the
\* contents of `detections` before the sort and the methods it invoked.
DetectFramerate(t) == IF t = << >> THEN {DefaultOutcome} ELSE RunMethods(t)

RECURSIVE SumDurations(_)
SumDurations(t) ==
  IF t = << >> THEN 0 ELSE Head(t).duration_ms + SumDurations(Tail(t))

\* get_statistics: the map it returns, as a function from its keys.
GetStatistics(t) ==
  IF t = << >> THEN << >>
  ELSE LET total_span == t[Len(t)].end_ms - t[1].start_ms
       IN [subtitle_count |-> FromInt(Len(t)),
           average_duration_ms |-> FDiv(FromInt(SumDurations(t)), FromInt(Len(t))),
           total_span_ms |-> FromInt(total_span),
           density_per_minute |->
             FDiv(FromInt(Len(t)), FDiv(FromInt(total_span), F60000))]

(***************************************************************************)
(* subtitle_parser.rs.  A string is the sequence of its characters.        *)
(***************************************************************************)
DigitChars == << "0", "1", "2", "3", "4", "5", "6", "7", "8", "9" >>

IsDigit(c) == \E d \in 1..10 : DigitChars[d] = c

DigitVal(c) == (CHOOSE d \in 1..10 : DigitChars[d] = c) - 1

\* str::parse::<i32> of a run of digits.
RECURSIVE ParseDigits(_)
ParseDigits(cs) ==
  IF cs = << >> THEN 0
  ELSE ParseDigits(SubSeq(cs, 1, Len(cs) - 1)) * 10 + DigitVal(cs[Len(cs)])

RECURSIVE DecDigits(_)
DecDigits(n) ==
  IF n < 10 THEN << DigitChars[n + 1] >>
  ELSE DecDigits(n \div 10) \o << DigitChars[(n % 10) + 1] >>

RECURSIVE Zeros(_)
Zeros(n) == IF n <= 0 THEN << >> ELSE << "0" >> \o Zeros(n - 1)

\* format!("{:0width$}", n) for an i32: zero padding that counts the sign.
FormatPadded(n, width) ==
  IF n >= 0 THEN Zeros(width - Len(DecDigits(n))) \o DecDigits(n)
  ELSE << "-" >> \o Zeros(width - 1 - Len(DecDigits(-n))) \o DecDigits(-n)

\* i32 `/`: the quotient truncated toward zero.
TruncDiv(a, b) == IF a >= 0 THEN a \div b ELSE -((-a) \div b)

\* A variant of MillisecondsToTimestamp: the milliseconds field is padded to
\* two digits only.
MillisecondsToTimestamp_NarrowMillis(ms) ==
  LET hours        == TruncDiv(ms, 3600000)
      minutes      == TruncDiv(ms - hours * 3600000, 60000)
      seconds      == TruncDiv(ms - hours * 3600000 - minutes * 60000, 1000)
      milliseconds == ms - hours * 3600000 - minutes * 60000 - seconds * 1000
  IN FormatPadded(hours, 2) \o << ":" >> \o FormatPadded(minutes, 2) \o << ":" >>
     \o FormatPadded(seconds, 2) \o << "," >> \o FormatPadded(milliseconds, 2)

\* milliseconds_to_timestamp
MillisecondsToTimestamp(ms) ==
  LET hours        == TruncDiv(ms, 3600000)
      minutes      == TruncDiv(ms - hours * 3600000, 60000)
      seconds      == TruncDiv(ms - hours * 3600000 - minutes * 60000, 1000)
      milliseconds == ms - hours * 3600000 - minutes * 60000 - seconds * 1000
  IN FormatPadded(hours, 2) \o << ":" >> \o FormatPadded(minutes, 2) \o << ":" >>
     \o FormatPadded(seconds, 2) \o << "," >> \o FormatPadded(milliseconds, 3)

\* The regex ^(\d{2}):(\d{2}):(\d{2}),(\d{3})$
MatchesTimestamp(ts) ==
  /\ Len(ts) = 12
  /\ \A i \in {1, 2, 4, 5, 7, 8, 10, 11, 12} : IsDigit(ts[i])
  /\ ts[3] = ":" /\ ts[6] = ":" /\ ts[9] = ","

Ok(x) == [ok |-> TRUE, v |-> x]

Err == [ok |-> FALSE, v |-> 0]

\* timestamp_to_milliseconds
TimestampToMilliseconds(ts) ==
  IF ~MatchesTimestamp(ts) THEN Err
  ELSE Ok(ParseDigits(SubSeq(ts, 1, 2)) * 3600000
          + ParseDigits(SubSeq(ts, 4, 5)) * 60000
          + ParseDigits(SubSeq(ts, 7, 8)) * 1000
          + ParseDigits(SubSeq(ts, 10, 12)))

\* convert_timestamp
ConvertTimestamp(ts, ratio) ==
  LET ms == TimestampToMilliseconds(ts)
  IN IF ~ms.ok THEN Err
     ELSE Ok(MillisecondsToTimestamp(ToI32(FRound(FMul(FromInt(ms.v), ratio)))))

\* struct SubtitleEntry, its two timestamps.
SubtitleEntry(start, end) == [start_time |-> start, end_time |-> end]

\* The loop body with end_time converted from the entry's new start_time.
ConvertEntry_EndFromStart(entry, ratio) ==
  LET st == ConvertTimestamp(entry.start_time, ratio)
      en == IF st.ok THEN ConvertTimestamp(st.v, ratio) ELSE Err
  IN IF ~st.ok THEN [ok |-> FALSE, v |-> entry]
     ELSE IF ~en.ok THEN [ok |-> FALSE, v |-> [entry EXCEPT !.start_time = st.v]]
     ELSE Ok(SubtitleEntry(st.v, en.v))

\* The body of convert_framerate's loop for one entry: start_time is assigned
\* before end_time is converted, and `?` leaves on the first Err.
ConvertEntry(entry, ratio) ==
  LET st == ConvertTimestamp(entry.start_time, ratio)
      en == ConvertTimestamp(entry.end_time, ratio)
  IN IF ~st.ok THEN [ok |-> FALSE, v |-> entry]
     ELSE IF ~en.ok THEN [ok |-> FALSE, v |-> [entry EXCEPT !.start_time = st.v]]
     ELSE Ok(SubtitleEntry(st.v, en.v))

\* convert_framerate: the entries it leaves and whether it returned Ok; the
\* entries after the one that failed are left as they were.
RECURSIVE ConvertEntries(_, _)
ConvertEntries(es, ratio) ==
  IF es = << >> THEN Ok(<< >>)
  ELSE LET first == ConvertEntry(Head(es), ratio)
       IN IF ~first.ok THEN [ok |-> FALSE, v |-> << first.v >> \o Tail(es)]
          ELSE LET rest == ConvertEntries(Tail(es), ratio)
               IN [ok |-> rest.ok, v |-> << first.v >> \o rest.v]

\* convert_framerate with the ratio taken as to_fps / from_fps.
ConvertFramerate_Inverted(es, from_fps, to_fps) ==
  ConvertEntries(es, FDiv(to_fps, from_fps))

\* convert_framerate
ConvertFramerate(es, from_fps, to_fps) ==
  ConvertEntries(es, FDiv(from_fps, to_fps))

(***************************************************************************)
(* The state: one FramerateDetector, one SubtitleFile, and what the last   *)
(* call returned.                                                          *)
(***************************************************************************)
VARIABLES
  timings,   \* FramerateDetector.timings
  contents,  \* the contents analyze_srt_content has been given, in call order
  entries,   \* SubtitleFile.entries (empty: no file loaded)
  loaded,    \* the entries as from_content returned them
  history,   \* the <<from_fps, to_fps>> of the convert_framerate calls since
  rates,     \* the frame rates this run converts between
  ret        \* the last call: [op |-> its name, value |-> what it returned]

vars == << timings, contents, entries, loaded, history, rates, ret >>

detectorVars == << timings, contents >>

fileVars == << entries, loaded, history >>

(***************************************************************************)
(* Bounds and the inputs drawn within them.                                *)
(***************************************************************************)
\* Cues in a file given to handle_analyze.
MaxCues == 24

\* Cues at the end of such a file that have the file's second duration.
MaxOdd == 9

\* Cues in one content given to analyze_srt_content.
MaxContentCues == 6

\* Calls of analyze_srt_content on one detector.
MaxAnalyses == 2

\* Cues in a file given to from_content for rescaling.
MaxEntries == 2

\* Calls of convert_framerate on one file.
MaxConversions == 2

\* The cues that start at `start`: cue i lasts dur[i] and is followed by gap[i].
RECURSIVE CuesFrom(_, _, _, _, _)
CuesFrom(i, n, start, dur, gap) ==
  IF i > n THEN << >>
  ELSE << SubtitleEntry(MillisecondsToTimestamp(start),
                        MillisecondsToTimestamp(start + dur[i])) >>
       \o CuesFrom(i + 1, n, start + dur[i] + gap[i], dur, gap)

\* A file of n cues from 01:00:00,000 on: the last j last dB ms and the others
\* dA ms, the gap between cues is g ms, and brk ms more after the first cue.
AnalyzedFile(n, j, dA, dB, g, brk) ==
  CuesFrom(1, n, 3600000,
           [i \in 1..n |-> IF i > n - j THEN dB ELSE dA],
           [i \in 1..n |-> IF i = 1 THEN g + brk ELSE g])

\* <<dA, dB, g, brk>>: frame-aligned and stray durations, gaps of one frame,
\* of 130 ms and of more than a bucket, a scene break of an hour, cues of no
\* length at one instant, overlapping cues that end before they start.
FileStyles ==
  { <<1000, 1010, 42, 0>>, <<1000, 1010, 130, 3600000>>,
    <<5000, 1010, 42, 0>>, <<5000, -300, 250, 3600000>>,
    <<0, 0, 0, 0>>, <<-300, -300, -50, 0>>, <<1000, 1017, -50, 0>> }

AnalyzedFiles ==
  { AnalyzedFile(n, j, st[1], st[2], st[3], st[4]) :
      n \in 0..MaxCues, j \in 0..MaxOdd, st \in FileStyles }

\* A content of n cues from 00:10:00,000 on, each d ms long, the gaps
\* alternating between g1 and g2 ms.
Content(n, d, g1, g2) ==
  CuesFrom(1, n, 600000,
           [i \in 1..n |-> d],
           [i \in 1..n |-> IF i % 2 = 1 THEN g1 ELSE g2])

Contents ==
  { Content(n, st[1], st[2], st[3]) :
      n \in 0..MaxContentCues,
      st \in {<<1000, 42, 42>>, <<5000, 42, 130>>, <<1000, 42, 250>>,
              <<-300, 500, 500>>} }

\* A file for rescaling: n cues from t0 on, each d ms long, g ms apart.
RescaledFile(n, t0, d, g) ==
  CuesFrom(1, n, t0, [i \in 1..n |-> d], [i \in 1..n |-> g])

RescaledFiles ==
  { RescaledFile(n, t0, d, g) :
      n \in 1..MaxEntries,
      t0 \in {0, 60000, 16777217, 180000000, 359990000},
      d \in {1, 999, 2500}, g \in {0, 1, 500} }

(***************************************************************************)
(* Operations.                                                             *)
(***************************************************************************)
NoFile == << >>

Init ==
  /\ timings = << >>
  /\ contents = << >>
  /\ entries = NoFile
  /\ loaded = NoFile
  /\ history = << >>
  /\ rates = {}
  /\ ret = [op |-> "new", value |-> << >>]

\* FramerateDetector::new
New ==
  /\ timings' = << >>
  /\ contents' = << >>
  /\ ret' = [op |-> "new", value |-> << >>]
  /\ UNCHANGED << fileVars, rates >>

\* The timing of one line the regex of analyze_srt_content captures.
ParsedTiming(line) ==
  SubtitleTiming(TimestampToMilliseconds(line.start_time).v,
                 TimestampToMilliseconds(line.end_time).v)

\* analyze_srt_content: one timing pushed per timing line of the content.
AnalyzeSrtContent(content) ==
  /\ Len(contents) < MaxAnalyses
  /\ timings' = timings \o [i \in 1..Len(content) |-> ParsedTiming(content[i])]
  /\ contents' = Append(contents, content)
  /\ ret' = [op |-> "analyze_srt_content", value |-> "ok"]
  /\ UNCHANGED << fileVars, rates >>

\* detect_framerate (&self)
DetectFramerateCall ==
  /\ \E outcome \in DetectFramerate(timings) :
       ret' = [op |-> "detect_framerate", value |-> outcome]
  /\ UNCHANGED << detectorVars, fileVars, rates >>

\* get_statistics (&self)
GetStatisticsCall ==
  /\ ret' = [op |-> "get_statistics", value |-> GetStatistics(timings)]
  /\ UNCHANGED << detectorVars, fileVars, rates >>

Next ==
  \/ New
  \/ \E content \in Contents : AnalyzeSrtContent(content)
  \/ DetectFramerateCall
  \/ GetStatisticsCall

Spec == Init /\ [][Next]_vars

\* main.rs detect_framerate, as handle_analyze calls it on the file it loaded:
\* a new detector, one timing pushed per entry, then detect_framerate.
HandleAnalyze(file) ==
  /\ entries = NoFile
  /\ entries' = file
  /\ loaded' = file
  /\ timings' = [i \in 1..Len(file) |-> ParsedTiming(file[i])]
  /\ \E outcome \in DetectFramerate(timings') :
       ret' = [op |-> "detect_framerate", value |-> outcome]
  /\ UNCHANGED << contents, history, rates >>

NextEnsemble ==
  \/ \E file \in AnalyzedFiles : HandleAnalyze(file)
  \/ GetStatisticsCall

SpecEnsemble == Init /\ [][NextEnsemble]_vars

\* The runs that rescale: the two frame rates in play are fixed at the start.
InitRescale ==
  /\ timings = << >>
  /\ contents = << >>
  /\ entries = NoFile
  /\ loaded = NoFile
  /\ history = << >>
  /\ \E a, b \in 1..Len(COMMON_FRAMERATES) : rates = {a, b}
  /\ ret = [op |-> "new", value |-> << >>]

\* SubtitleFile::from_content on a content whose blocks are the cues of file.
FromContent(file) ==
  /\ entries = NoFile
  /\ file # << >>
  /\ entries' = file
  /\ loaded' = file
  /\ history' = << >>
  /\ ret' = [op |-> "from_content", value |-> "ok"]
  /\ UNCHANGED << detectorVars, rates >>

\* convert_framerate (&mut self)
ConvertFramerateCall(from, to) ==
  /\ entries # NoFile
  /\ Len(history) < MaxConversions
  /\ LET r == ConvertFramerate(entries, COMMON_FRAMERATES[from], COMMON_FRAMERATES[to])
     IN /\ entries' = r.v
        /\ ret' = [op |-> "convert_framerate", value |-> IF r.ok THEN "ok" ELSE "err"]
  /\ history' = Append(history, << from, to >>)
  /\ UNCHANGED << detectorVars, loaded, rates >>

NextRescale ==
  \/ \E file \in RescaledFiles : FromContent(file)
  \/ \E from, to \in rates : ConvertFramerateCall(from, to)

SpecRescale == InitRescale /\ [][NextRescale]_vars

\* The millisecond values given to milliseconds_to_timestamp on their own:
\* every combination of the edge and inner values of the four fields, and the
\* first values past 99:59:59,999.
TimestampSamples ==
  { h * 3600000 + mi * 60000 + s * 1000 + f :
      h \in {0, 1, 9, 10, 99}, mi \in {0, 23, 59}, s \in {0, 45, 59},
      f \in {0, 7, 78, 678, 999} }
  \cup { 360000000, 360000001, 2147483647 }

\* The runs of the two timestamp functions on their own.
InitTimestamp ==
  /\ timings = << >>
  /\ contents = << >>
  /\ entries = NoFile
  /\ loaded = NoFile
  /\ history = << >>
  /\ rates = {}
  /\ \E ms \in TimestampSamples : ret = [op |-> "input", value |-> ms, of |-> ms]

\* milliseconds_to_timestamp(ms)
MillisecondsToTimestampCall ==
  /\ ret.op = "input"
  /\ ret' = [op |-> "milliseconds_to_timestamp",
             value |-> MillisecondsToTimestamp(ret.value), of |-> ret.of]
  /\ UNCHANGED << detectorVars, fileVars, rates >>

\* timestamp_to_milliseconds on the text milliseconds_to_timestamp returned.
TimestampToMillisecondsCall ==
  /\ ret.op = "milliseconds_to_timestamp"
  /\ ret' = [op |-> "timestamp_to_milliseconds",
             value |-> TimestampToMilliseconds(ret.value), of |-> ret.of]
  /\ UNCHANGED << detectorVars, fileVars, rates >>

NextTimestamp ==
  \/ MillisecondsToTimestampCall
  \/ TimestampToMillisecondsCall

SpecTimestamp == InitTimestamp /\ [][NextTimestamp]_vars

(***************************************************************************)
(* The claims.                                                             *)
(***************************************************************************)
\* The last call was detect_framerate.
Detected == ret.op = "detect_framerate"

\* The proposals the last detect_framerate collected, and what it returned.
Proposals == ret.value.detections

Result == ret.value.result

\* The place of a method in the order the ensemble asks them.
MethodRank(m) ==
  CHOOSE r \in 1..3 :
    << "interval_analysis", "duration_pattern", "common_framerate_heuristic" >>[r] = m

\* C1: detect_framerate returns the proposal of maximum confidence among the
\* proposals made; among proposals of equal confidence the one collected
\* first, in the order interval analysis, duration pattern, heuristic.
C1_MaxConfidenceFirstCollected ==
  (Detected /\ Proposals # << >>) =>
    /\ \A i, k \in 1..Len(Proposals) :
         i < k => MethodRank(Proposals[i].method) < MethodRank(Proposals[k].method)
    /\ \E i \in 1..Len(Proposals) :
         /\ Result = Proposals[i]
         /\ \A k \in 1..Len(Proposals) :
              ~FGt(Proposals[k].confidence, Proposals[i].confidence)
         /\ \A k \in 1..(i - 1) :
              FLt(Proposals[k].confidence, Proposals[i].confidence)

\* C1's case: a duration-pattern proposal and a heuristic proposal both of
\* confidence 0.5, and the duration-pattern one returned.
C1_Witness ==
  /\ Detected
  /\ \E i, k \in 1..Len(Proposals) :
       /\ Proposals[i].method = "duration_pattern"
       /\ Proposals[k].method = "common_framerate_heuristic"
       /\ Proposals[i].confidence = F0_5
       /\ Proposals[k].confidence = F0_5
  /\ Result.method = "duration_pattern"

\* C2: with no timing samples detect_framerate returns exactly framerate
\* 29.97, confidence 0.0, method "default", and invokes none of the methods.
C2_EmptyGivesDefault ==
  (Detected /\ timings = << >>) =>
    /\ Result = [framerate |-> F29_97, confidence |-> FZero, method |-> "default"]
    /\ ret.value.invoked = << >>
    /\ Proposals = << >>

C2_Witness == Detected /\ timings = << >> /\ Result.method = "default"

\* C3: for 1 to 4 samples, whatever their start and end, all three methods
\* abstain and detect_framerate returns exactly framerate 29.97, confidence
\* 0.1, method "fallback".
C3_ShortGivesFallback ==
  (Detected /\ Len(timings) \in 1..4) =>
    /\ Proposals = << >>
    /\ Result = [framerate |-> F29_97, confidence |-> F0_1, method |-> "fallback"]

C3_Witness ==
  /\ Detected
  /\ Len(timings) = 4
  /\ \E i \in 1..4 : timings[i].duration_ms < 0
  /\ Result.method = "fallback"

\* C4: detect_framerate never fails: for every sample sequence it returns a
\* FramerateDetection (one of the five methods, a confidence that is a
\* number) and never panics on a failed comparison or a missing sample.
C4_NeverFails ==
  Detected =>
    /\ Result.method \in { "default", "fallback", "interval_analysis",
                           "duration_pattern", "common_framerate_heuristic" }
    /\ Result.confidence.k = "fin"
    /\ Result.framerate.k = "fin"

\* C4's case: twenty or more samples of negative duration that overlap and
\* span no more than zero, two proposals compared, and a result returned.
C4_Witness ==
  /\ Detected
  /\ Len(timings) >= 20
  /\ \A i \in 1..Len(timings) : timings[i].duration_ms < 0
  /\ \A i \in 1..(Len(timings) - 1) : timings[i + 1].start_ms < timings[i].end_ms
  /\ timings[Len(timings)].end_ms - timings[1].start_ms <= 0
  /\ Len(Proposals) >= 2
  /\ Result.method # "panic"

\* C5: given 20 cues whose durations are all exact whole multiples of the
\* 24 fps frame duration (1000/24 ms, so whole multiples of 125 ms), the
\* duration pattern method selects 24.0 with confidence above 0.6 * 0.8.
C5_Claim ==
  ( /\ Detected
    /\ Len(timings) = 20
    /\ \A i \in 1..20 : timings[i].duration_ms > 0
                          /\ timings[i].duration_ms % 125 = 0 ) =>
    \E i \in 1..Len(Proposals) :
      /\ Proposals[i].method = "duration_pattern"
      /\ Proposals[i].framerate = F24
      /\ FGt(Proposals[i].confidence, FMul(F0_6, F0_8))

\* C6: given at least 10 cues with every gap between a cue's end and the
\* next cue's start exactly 42 ms, the interval method proposes 24.0 with
\* confidence at least 0.98 * 0.7.
C6_Claim ==
  ( /\ Detected
    /\ Len(timings) >= 10
    /\ \A i \in 1..(Len(timings) - 1) :
         timings[i + 1].start_ms - timings[i].end_ms = 42 ) =>
    \E i \in 1..Len(Proposals) :
      /\ Proposals[i].method = "interval_analysis"
      /\ Proposals[i].framerate = F24
      /\ ~FLt(Proposals[i].confidence, FMul(Lit(98, 100), F0_7))

\* The millisecond value a timestamp text stands for, read from its right end
\* so that an hour field of more than two digits is read as well.
ReadMs(ts) ==
  LET n == Len(ts)
  IN ParseDigits(SubSeq(ts, 1, n - 10)) * 3600000
     + ParseDigits(SubSeq(ts, n - 8, n - 7)) * 60000
     + ParseDigits(SubSeq(ts, n - 5, n - 4)) * 1000
     + ParseDigits(SubSeq(ts, n - 2, n))

\* The timestamps of a file in file order: start and end of each cue.
Stamps(es) ==
  [k \in 1..(2 * Len(es)) |->
     IF k % 2 = 1 THEN es[(k + 1) \div 2].start_time ELSE es[k \div 2].end_time]

\* The file has been through exactly these convert_framerate calls, the last
\* of which returned Ok.
Converted(calls) ==
  /\ ret.op = "convert_framerate" /\ ret.value = "ok"
  /\ history = calls

\* C7: rescaling with equal source and target frame rate leaves every
\* timestamp's millisecond value as it was.
C7_Claim ==
  \A f \in 1..Len(COMMON_FRAMERATES) :
    Converted(<< << f, f >> >>) =>
      \A k \in 1..(2 * Len(entries)) :
        ReadMs(Stamps(entries)[k]) = ReadMs(Stamps(loaded)[k])

\* C8: rescaling from A to B and then from B to A gives each timestamp a
\* millisecond value within 1 of the one it had.
C8_Claim ==
  \A a, b \in 1..Len(COMMON_FRAMERATES) :
    Converted(<< << a, b >>, << b, a >> >>) =>
      \A k \in 1..(2 * Len(entries)) :
        Abs(ReadMs(Stamps(entries)[k]) - ReadMs(Stamps(loaded)[k])) <= 1

OneMinute == << "0", "0", ":", "0", "1", ":", "0", "0", ",", "0", "0", "0" >>

FortyEightSeconds048 == << "0", "0", ":", "0", "0", ":", "4", "8", ",", "0", "4", "8" >>

\* C9: rescaling to a higher frame rate never makes a timestamp's millisecond
\* value greater, and 00:01:00,000 rescaled from 24 to 29.97 fps becomes
\* 00:00:48,048.
C9_HigherRateMovesEarlier ==
  \A from, to \in 1..Len(COMMON_FRAMERATES) :
    Converted(<< << from, to >> >>)
    /\ FLt(COMMON_FRAMERATES[from], COMMON_FRAMERATES[to]) =>
      \A k \in 1..(2 * Len(entries)) :
        /\ ReadMs(Stamps(entries)[k]) <= ReadMs(Stamps(loaded)[k])
        /\ (COMMON_FRAMERATES[from] = F24 /\ COMMON_FRAMERATES[to] = F29_97
            /\ Stamps(loaded)[k] = OneMinute)
             => Stamps(entries)[k] = FortyEightSeconds048

C9_Witness ==
  /\ Converted(<< << 2, 4 >> >>)
  /\ loaded[1].start_time = OneMinute
  /\ entries[1].start_time = FortyEightSeconds048
  /\ ReadMs(entries[1].start_time) = 48048

\* C10: convert_framerate keeps the order of millisecond values: of any two
\* timestamps of the file, the one that was not later is not later afterwards,
\* so a cue with end >= start keeps it and start times in non-decreasing file
\* order stay so.
C10_OrderPreserved ==
  (ret.op = "convert_framerate" /\ ret.value = "ok") =>
    \A j, k \in 1..(2 * Len(entries)) :
      ReadMs(Stamps(loaded)[j]) <= ReadMs(Stamps(loaded)[k])
        => ReadMs(Stamps(entries)[j]) <= ReadMs(Stamps(entries)[k])

C10_Witness ==
  /\ ret.op = "convert_framerate" /\ ret.value = "ok"
  /\ Len(history) = 1 /\ history[1][1] # history[1][2]
  /\ Len(entries) = 2
  /\ ReadMs(loaded[1].start_time) < ReadMs(loaded[1].end_time)
  /\ ReadMs(loaded[1].end_time) < ReadMs(loaded[2].start_time)
  /\ ReadMs(entries[1].start_time) < ReadMs(entries[1].end_time)
  /\ ReadMs(entries[1].end_time) = ReadMs(entries[2].start_time)

MaxTimestampMs == 359999999

Sample012345678 == << "0", "1", ":", "2", "3", ":", "4", "5", ",", "6", "7", "8" >>

\* C11: for 0 <= ms <= 359999999 the text milliseconds_to_timestamp renders
\* parses back to ms; 5025678 renders as 01:23:45,678 and that text parses to
\* 5025678.
C11_TextRoundTrip ==
  /\ (ret.op = "timestamp_to_milliseconds"
      /\ 0 <= ret.of /\ ret.of <= MaxTimestampMs) => ret.value = Ok(ret.of)
  /\ (ret.op = "milliseconds_to_timestamp" /\ ret.of = 5025678)
       => ret.value = Sample012345678
  /\ TimestampToMilliseconds(Sample012345678) = Ok(5025678)

C11_Witness ==
  /\ ret.op = "timestamp_to_milliseconds"
  /\ ret.of = 5025678
  /\ ret.value = Ok(5025678)

\* C12: after any sequence of convert_framerate calls on a file from_content
\* accepted, every start_time and end_time is a timestamp that
\* timestamp_to_milliseconds accepts, and no call has failed.
C12_Claim ==
  /\ \A k \in 1..(2 * Len(entries)) :
       TimestampToMilliseconds(Stamps(entries)[k]).ok
  /\ ret.op = "convert_framerate" => ret.value = "ok"

\* The samples a new detector holds after analyze_srt_content(content).
FreshTimings(content) == [i \in 1..Len(content) |-> ParsedTiming(content[i])]

\* C13: samples do not persist across analysis requests: a detect_framerate
\* that follows the second analyze_srt_content on one detector returns what a
\* new detector returns for the second content alone.
C13_Claim ==
  (Detected /\ Len(contents) = 2) =>
    Result \in {o.result : o \in DetectFramerate(FreshTimings(contents[2]))}

\* C14: detect_framerate is deterministic: whichever of the equally frequent
\* gap buckets the interval method takes, the framerate, confidence and method
\* returned for the detector's samples are the ones this call returned.
C14_Deterministic ==
  Detected => \A o \in DetectFramerate(timings) : o.result = Result

\* Ten or more samples whose two most frequent buckets tie, and the interval
\* method proposes differently for the two.
C14_Witness ==
  /\ Detected
  /\ Len(timings) >= 10
  /\ Cardinality(MostCommonIntervals(timings)) >= 2
  /\ Cardinality(DetectByIntervals(timings)) >= 2
  /\ \E d \in DetectByIntervals(timings) : d # None /\ d[1] = Proposals[1]

\* The gap buckets detect_by_intervals can choose: gaps lie strictly between
\* 0 and 10000 ms and are truncated to a multiple of 100.
GapBuckets == {100 * b : b \in 0..99}

\* The proposals with the given method among those collected.
ProposalsOf(meth) == {i \in 1..Len(Proposals) : Proposals[i].method = meth}

\* C15: the interval proposal is never the result: whatever bucket it matches
\* its confidence is below 0.5, and when it proposes the heuristic proposes
\* too with at least 0.5; so the method returned is default, fallback,
\* duration_pattern or common_framerate_heuristic, and with 5 or more samples
\* the confidence returned is at least 0.5.
C15_IntervalNeverWins ==
  /\ \A b \in GapBuckets :
       MatchInterval(b) # None => FLt(MatchInterval(b)[1].confidence, F0_5)
  /\ Detected =>
       /\ ProposalsOf("interval_analysis") # {} =>
            /\ Len(timings) >= 10
            /\ \A i \in ProposalsOf("interval_analysis") :
                 FLt(Proposals[i].confidence, F0_5)
            /\ \E i \in ProposalsOf("common_framerate_heuristic") :
                 ~FLt(Proposals[i].confidence, F0_5)
       /\ Result.method \in {"default", "fallback", "duration_pattern",
                              "common_framerate_heuristic"}
       /\ Len(timings) >= 5 =>
            Result.confidence.k = "fin" /\ ~FLt(Result.confidence, F0_5)

\* The interval method proposed with its larger confidence (bucket 100) and
\* the heuristic was returned.
C15_Witness ==
  /\ Detected
  /\ \E i \in ProposalsOf("interval_analysis") :
       FGt(Proposals[i].confidence, IntervalConfidence(41))
  /\ Result.method = "common_framerate_heuristic"

====
